---- MODULE Spec2Model ----
(***************************************************************************)
(* Model of the keyboard daemon (KBDDaemon.cpp, multi-device variant):     *)
(* the passthrough key set and its file reactor, the device buckets and    *)
(* the /dev/input reactor, and the runloop with its MACROD round trip and  *)
(* socket error budget. The single-device variant held in the second half  *)
(* of the file is modelled next to it, with its own runloop.               *)
(***************************************************************************)
EXTENDS Integers, Sequences, FiniteSets, TLC

VARIABLES
    key_sources,        \* map: canonical path -> vector<int> of contributed codes
    passthrough_keys,   \* set<int>
    k_pc,               \* keys_fsw callback position: "idle" | "dispatch" | "parse"
    k_ev,               \* keys_fsw callback: the FSEvent being handled
    k_path,             \* canonical path held by loadPassthrough between unload and parse
    k_last,             \* history: how the last callback ended, and key_sources before it
    mtx,                \* holder of each mutex: "free" | "run" | "in" | "keys"
    kbds,               \* vector<Keyboard*> kbds: the configured keyboards
    kbd_state,          \* Keyboard::getState() of every configured keyboard
    available_kbds,     \* vector<Keyboard*>
    pulled_kbds,        \* vector<Keyboard*>
    pc,                 \* runloop position
    snap,               \* run(): local copy `kbds` of available_kbds
    kbd,                \* run(): Keyboard *kbd
    had_key,            \* run(): bool had_key
    action,             \* run(): KBDAction action = [ev, done]
    is_passthrough,     \* run(): bool is_passthrough
    errors,             \* run(): int errors
    udev_queue,         \* events emitted on udev and not yet flushed
    orig_ev,            \* history: the event read from the device in this iteration
    iter_log,           \* history: udev calls of this iteration, in order
    iter_resp,          \* history: non-done response records received in this iteration
    iter_sock,          \* history: number of kbd_com send/recv calls of this iteration
    outcome,            \* history: how the last finished iteration ended
    errors_at_send,     \* history: value of errors when the last round trip began
    read_state,         \* history: state of the keyboard when this iteration read from it
    i_pc,               \* input_fsw callback position
    i_ev,               \* input_fsw callback: the event being handled
    i_it,               \* input_fsw callback: iterator into pulled_kbds (1-based)
    wait_time           \* input_fsw callback: int wait_time

pt_vars  == <<key_sources, passthrough_keys, k_pc, k_ev, k_path, k_last>>
dev_vars == <<kbds, kbd_state, available_kbds, pulled_kbds>>
run_vars == <<pc, snap, kbd, had_key, action, is_passthrough, errors, udev_queue>>
hist_vars == <<orig_ev, iter_log, iter_resp, iter_sock, outcome, errors_at_send, read_state>>
in_vars  == <<i_pc, i_ev, i_it, wait_time>>
vars == <<pt_vars, mtx, dev_vars, run_vars, hist_vars, in_vars>>

(***************************************************************************)
(* Small helpers                                                           *)
(***************************************************************************)
Range(s) == {s[i] : i \in 1..Len(s)}

SeqsUpTo(S, n) == UNION {[1..k -> S] : k \in 0..n}

\* (mask & bit) != 0 for a single-bit constant
HasBit(mask, bit) == (mask \div bit) % 2 = 1

NULL == "NULL"

(***************************************************************************)
(* Passthrough key files                                                   *)
(***************************************************************************)
\* inotify mask bits used by the keys_fsw callback
IN_MODIFY == 2
IN_CREATE == 256
IN_DELETE_SELF == 1024
\* S_IRWXU | S_IRWXG | S_IRWXO
S_IRWXUGO == 511

\* 0644
MODE_0644 == 420

\* getuid() of the daemon
DaemonUid == 0

\* Paths events are delivered for; "keys/l.csv" is a symlink to "keys/a.csv".
KeyPaths == {"keys/a.csv", "keys/b.csv", "keys/l.csv"}

Canon(p) == IF p = "keys/l.csv" THEN "keys/a.csv" ELSE p

\* realpath(): the canonical path, or nullptr when the file cannot be resolved
RealpathResults(p) == {Canon(p), NULL}

\* st_mode values of the event's stat buffer: regular file with 0644, 0664, 0600
FileModes == {32768 + 420, 32768 + 436, 32768 + 384}

FileUids == {DaemonUid, 1000}

\* masks of the events: none of the tested bits (0, and 4 = IN_ATTRIB), or some of them
FileMasks == {0, 4, IN_MODIFY, IN_CREATE, IN_DELETE_SELF, IN_DELETE_SELF + IN_MODIFY}

KeyFSEvents ==
    [path : KeyPaths, mask : FileMasks, st_mode : FileModes, st_uid : FileUids,
     added : BOOLEAN]

\* Cells of the key_code column, as character sequences.
Cells == { <<"3","0">>, <<"3","1">>, <<"-","5">>, <<"x">>, <<"3","1","x">> }

MaxCells == 2

\* CSV csv(path); csv.getColCells("key_code"): the cells, or a CSVError thrown
CSVError == [err |-> TRUE, cells |-> <<>>]

CsvCells(cells) == [err |-> FALSE, cells |-> cells]

CsvResults == {CsvCells(c) : c \in SeqsUpTo(Cells, MaxCells)} \cup {CSVError}

DigitVal(c) ==
    CASE c = "0" -> 0 [] c = "1" -> 1 [] c = "2" -> 2 [] c = "3" -> 3 [] c = "4" -> 4
      [] c = "5" -> 5 [] c = "6" -> 6 [] c = "7" -> 7 [] c = "8" -> 8 [] c = "9" -> 9
      [] OTHER -> -1

RECURSIVE DigitPrefix(_, _, _)
\* value of the longest digit prefix of s from position i on, given the value acc so far;
\* -1 when there is no digit at position i and acc is still "none" (-1)
DigitPrefix(s, i, acc) ==
    IF i > Len(s) \/ DigitVal(s[i]) < 0
    THEN acc
    ELSE DigitPrefix(s, i + 1, (IF acc < 0 THEN 0 ELSE acc) * 10 + DigitVal(s[i]))

\* std::stoi: optional sign, then digits; trailing characters are ignored;
\* throws (ok = FALSE) when no digit can be converted.
Stoi(s) ==
    LET neg  == Len(s) > 0 /\ s[1] = "-"
        from == IF Len(s) > 0 /\ s[1] \in {"-", "+"} THEN 2 ELSE 1
        mag  == DigitPrefix(s, from, -1)
    IN  IF mag < 0 THEN [ok |-> FALSE, val |-> 0]
        ELSE [ok |-> TRUE, val |-> IF neg THEN 0 - mag ELSE mag]

\* codes of all vectors held in a key_sources map
SourceCodes(ks) == UNION {Range(ks[p]) : p \in DOMAIN ks}

\* unloadPassthrough without the loop that re-adds the remaining files' codes
UnloadNoReadd(ks, pk, path) ==
    IF path \in DOMAIN ks
    THEN [ks |-> [p \in (DOMAIN ks) \ {path} |-> ks[p]], pk |-> pk \ Range(ks[path])]
    ELSE [ks |-> ks, pk |-> pk]

\* KBDDaemon::unloadPassthrough: erase the file's codes, drop the file, re-add the
\* codes of every remaining file.
UnloadPassthrough(ks, pk, path) ==
    IF path \in DOMAIN ks
    THEN LET erased == pk \ Range(ks[path])
             rest   == [p \in (DOMAIN ks) \ {path} |-> ks[p]]
         IN  [ks |-> rest, pk |-> erased \cup SourceCodes(rest)]
    ELSE [ks |-> ks, pk |-> pk]

RECURSIVE CellsToInts(_)
\* the loop over the cells: cells that stoi rejects are skipped, negative values dropped
CellsToInts(cells) ==
    IF cells = <<>> THEN <<>>
    ELSE LET r == Stoi(Head(cells))
         IN  IF r.ok /\ r.val >= 0
             THEN <<r.val>> \o CellsToInts(Tail(cells))
             ELSE CellsToInts(Tail(cells))

\* loadPassthrough(path) after the unload: parse the CSV and record the file
ParseAndInsert(ks, pk, path, csv) ==
    IF csv.err
    THEN [ks |-> ks, pk |-> pk]
    ELSE LET cells_i == CellsToInts(csv.cells)
         IN  [ks |-> [p \in (DOMAIN ks) \cup {path} |-> IF p = path THEN cells_i ELSE ks[p]],
              pk |-> pk \cup Range(cells_i)]

\* KBDDaemon::loadPassthrough(std::string): rp is realpath's result, csv the CSV's
LoadPassthroughPath(ks, pk, rp, csv) ==
    IF rp = NULL
    THEN [ks |-> ks, pk |-> pk]
    ELSE LET u == UnloadPassthrough(ks, pk, rp)
         IN  ParseAndInsert(u.ks, u.pk, rp, csv)

\* the permission gate without the owner test
PermOKModeOnly(ev) == (ev.st_mode % (S_IRWXUGO + 1)) = MODE_0644

\* the permission gate of loadPassthrough(FSEvent*)
PermOK(ev) == (ev.st_mode % (S_IRWXUGO + 1)) = MODE_0644 /\ ev.st_uid = DaemonUid

\* KBDDaemon::loadPassthrough(FSEvent*)
LoadPassthroughEv(ks, pk, ev, rp, csv) ==
    IF PermOK(ev) THEN LoadPassthroughPath(ks, pk, rp, csv) ELSE [ks |-> ks, pk |-> pk]

\* one file of the keys directory as initPassthrough sees it
StartupFile(p, mode, uid, csv) ==
    [ev |-> [path |-> p, mask |-> 0, st_mode |-> mode, st_uid |-> uid, added |-> TRUE],
     rp |-> Canon(p), csv |-> CsvCells(csv)]

\* Directory listings of the keys directory at start-up.
StartupListings ==
    { <<>>,
      << StartupFile("keys/a.csv", 33188, DaemonUid, << <<"3","0">> >>) >>,
      << StartupFile("keys/a.csv", 33188, DaemonUid, << <<"3","0">> >>),
         StartupFile("keys/b.csv", 33188, DaemonUid, << <<"3","0">>, <<"3","1">> >>) >>,
      << StartupFile("keys/a.csv", 33204, DaemonUid, << <<"3","0">> >>),
         StartupFile("keys/b.csv", 33188, 1000, << <<"3","1">> >>) >> }

RECURSIVE InitPassthrough(_, _, _)
\* KBDDaemon::initPassthrough: load every file of the listing
InitPassthrough(ks, pk, files) ==
    IF files = <<>> THEN [ks |-> ks, pk |-> pk]
    ELSE LET f == Head(files)
             r == LoadPassthroughEv(ks, pk, f.ev, f.rp, f.csv)
         IN  InitPassthrough(r.ks, r.pk, Tail(files))

EmptyMap == [p \in {} |-> <<>>]

(***************************************************************************)
(* keys_fsw callback (passthrough FS reactor)                              *)
(***************************************************************************)
Acquire(m, who) == mtx' = [mtx EXCEPT ![m] = who]
Release(m) == mtx' = [mtx EXCEPT ![m] = "free"]

NoFSEvent == [path |-> NULL]

\* The callback is entered with an event: lock_guard lock(passthrough_keys_mtx).
KeysBeginWith(events) ==
    /\ k_pc = "idle"
    /\ mtx["pt"] = "free"
    /\ \E ev \in events : k_ev' = ev
    /\ k_pc' = "dispatch"
    /\ Acquire("pt", "keys")
    /\ k_last' = [kind |-> "running", before |-> key_sources]
    /\ UNCHANGED <<key_sources, passthrough_keys, k_path>>
    /\ UNCHANGED <<dev_vars, run_vars, hist_vars, in_vars>>

\* the callback entered with any event of the keys directory
KeysBegin == KeysBeginWith(KeyFSEvents)

KeysReturn(kind) ==
    /\ k_pc' = "idle"
    /\ k_last' = [k_last EXCEPT !.kind = kind]
    /\ k_ev' = NoFSEvent
    /\ k_path' = NULL
    /\ Release("pt")

\* if (ev.mask & IN_DELETE_SELF)
IsUnloadEvent(ev) == HasBit(ev.mask, IN_DELETE_SELF)

\* else if (ev.mask & (IN_CREATE | IN_MODIFY))
IsLoadEvent(ev) ==
    ~IsUnloadEvent(ev) /\ (HasBit(ev.mask, IN_CREATE) \/ HasBit(ev.mask, IN_MODIFY))

\* The dispatch of the callback, up to the point where loadPassthrough has
\* unloaded the file's old contribution.
KeysDispatch ==
    /\ k_pc = "dispatch"
    /\ IF IsUnloadEvent(k_ev)
       THEN LET u == UnloadPassthrough(key_sources, passthrough_keys, k_ev.path)
            IN  /\ key_sources' = u.ks
                /\ passthrough_keys' = u.pk
                /\ KeysReturn("unload")
       ELSE IF IsLoadEvent(k_ev) /\ PermOK(k_ev)
       THEN \E rp \in RealpathResults(k_ev.path) :
              IF rp = NULL
              THEN UNCHANGED <<key_sources, passthrough_keys>> /\ KeysReturn("nopath")
              ELSE LET u == UnloadPassthrough(key_sources, passthrough_keys, rp)
                   IN  /\ key_sources' = u.ks
                       /\ passthrough_keys' = u.pk
                       /\ k_path' = rp
                       /\ k_pc' = "parse"
                       /\ UNCHANGED <<k_ev, k_last, mtx>>
       ELSE /\ UNCHANGED <<key_sources, passthrough_keys>>
            /\ KeysReturn(IF IsLoadEvent(k_ev) THEN "rejected" ELSE "ignored")
    /\ UNCHANGED <<dev_vars, run_vars, hist_vars, in_vars>>

\* The rest of loadPassthrough: parse the CSV, insert the codes, record the file;
\* the callback returns and the mutex is released.
KeysParseWith(results) ==
    /\ k_pc = "parse"
    /\ \E csv \in results :
         LET r == ParseAndInsert(key_sources, passthrough_keys, k_path, csv)
         IN  /\ key_sources' = r.ks
             /\ passthrough_keys' = r.pk
             /\ KeysReturn(IF csv.err THEN "csverror" ELSE "loaded")
    /\ UNCHANGED <<dev_vars, run_vars, hist_vars, in_vars>>

\* the rest of loadPassthrough with any content of the file
KeysParse == KeysParseWith(CsvResults)

(***************************************************************************)
(* Keyboards and their buckets                                             *)
(***************************************************************************)
\* The keyboards given on the command line (addDevice).
ConfiguredKbds == <<"k1", "k2">>

\* Keyboard::lock() on a successful grab
KbdLock(st) == "LOCKED"

\* Keyboard::reset(path): a freshly opened, not yet grabbed device
KbdReset(st) == "INITIAL"

\* Keyboard::disable()
KbdDisable(st) == "DISABLED"

\* States a keyboard can be in when the runloop starts: grabbed, or opened with
\* the grab not (yet) in effect.
StartupKbdStates == {"LOCKED", "INITIAL"}

\* KBDDaemon::updateAvailableKBDs
UpdateAvailableKBDs(kv, st) == SelectSeq(kv, LAMBDA k : st[k] # "DISABLED")

\* find() without the erase()
RemoveNone(s, x) == s

\* find() + erase() of one element of a vector
RemoveFirst(s, x) ==
    LET i == CHOOSE j \in 1..Len(s) : s[j] = x /\ \A h \in 1..(j - 1) : s[h] # x
    IN  SubSeq(s, 1, i - 1) \o SubSeq(s, i + 1, Len(s))

\* an erase() of the first element whatever the iterator
RemoveHead(s, i) == Tail(s)

\* vector::erase(it)
RemoveAt(s, i) == SubSeq(s, 1, i - 1) \o SubSeq(s, i + 1, Len(s))

(***************************************************************************)
(* Key events, MACROD records, the virtual keyboard                        *)
(***************************************************************************)
KeyEv(c, v) == [code |-> c, value |-> v]

NoEv == KeyEv(0, 0)

\* events the keyboards deliver
DevEvents == {KeyEv(30, 1), KeyEv(31, 1)}

\* events MACROD answers with
RespEvents == {KeyEv(30, 1), KeyEv(48, 1)}

\* records kbd_com.recv() yields: responses, and the record with done set
RespRecords == [ev : RespEvents, done : {0}] \cup {[ev |-> NoEv, done |-> 1]}

\* most response records MACROD sends before its done record
MaxResp == 2

EmitOp(e) == [op |-> "emit", ev |-> e]
FlushOp == [op |-> "flush", ev |-> NoEv]

\* 30 consecutive socket errors will lead to the keyboard daemon aborting.
MAX_ERRORS == 30

(***************************************************************************)
(* KBDDaemon::run, the runloop                                             *)
(***************************************************************************)
\* a test that only rejects disabled keyboards
KeyAcceptedNotDisabled(st) == st # "DISABLED"

\* if (kbd->getState() == KBDState::LOCKED) had_key = true;
KeyAccepted(st) == st = "LOCKED"

\* a lookup that only asks whether any passthrough key is configured
IsPassthroughAny(code, pk) == pk # {}

\* is_passthrough = passthrough_keys.count(action.ev.code)
IsPassthrough(code, pk) == code \in pk

\* an emit of the key read from the keyboard instead of the record received
RecvEmitOrig(r) == orig_ev

\* udev.emit(&action.ev) in the receive loop: action holds the record just received
RecvEmitEv(r) == r.ev

\* a finished round trip that leaves the counter alone
ErrorsKept(e) == e

\* errors = 0; after the flush of a finished round trip
ErrorsAfterRoundTrip(e) == 0

\* a failure that starts the count again
ErrorsForgotten(e) == 0

\* errors++ in the catch block of SocketError
ErrorsAfterFailure(e) == e + 1

\* if (errors++ > MAX_ERRORS): the test sees the value before the increment
BudgetExceeded(e) == e > MAX_ERRORS

\* The top of an iteration: had_key = false, action.done = 0, and the copy of
\* available_kbds taken under available_kbds_mtx.
RunTop ==
    /\ pc = "top"
    /\ mtx["avail"] = "free"
    /\ had_key' = FALSE
    /\ action' = [action EXCEPT !.done = 0]
    /\ snap' = available_kbds
    /\ is_passthrough' = FALSE
    /\ pc' = "poll"
    /\ orig_ev' = NoEv
    /\ iter_log' = <<>>
    /\ iter_resp' = <<>>
    /\ iter_sock' = 0
    /\ outcome' = "running"
    /\ errors_at_send' = 0
    /\ read_state' = "none"
    /\ UNCHANGED <<kbd, errors, udev_queue>>
    /\ UNCHANGED <<pt_vars, mtx, dev_vars, in_vars>>

\* kbdMultiplex(kbds, 64) returns -1: no key, the loop continues.
RunPollTimeout ==
    /\ pc = "poll"
    /\ pc' = "top"
    /\ snap' = <<>>
    /\ outcome' = "timeout"
    /\ UNCHANGED <<kbd, had_key, action, is_passthrough, errors, udev_queue>>
    /\ UNCHANGED <<orig_ev, iter_log, iter_resp, iter_sock, errors_at_send, read_state>>
    /\ UNCHANGED <<pt_vars, mtx, dev_vars, in_vars>>

\* kbdMultiplex returns idx, kbd->get() delivers an event; the key is thrown
\* away when the keyboard is not locked.
RunRead ==
    /\ pc = "poll"
    /\ \E idx \in 1..Len(snap), e \in DevEvents :
         LET ok == KeyAccepted(kbd_state[snap[idx]])
         IN  /\ kbd' = snap[idx]
             /\ action' = [action EXCEPT !.ev = e]
             /\ orig_ev' = e
             /\ read_state' = kbd_state[snap[idx]]
             /\ had_key' = ok
             /\ pc' = IF ok THEN "lookup" ELSE "top"
             /\ outcome' = IF ok THEN "running" ELSE "discarded"
    /\ snap' = <<>>
    /\ UNCHANGED <<is_passthrough, errors, udev_queue>>
    /\ UNCHANGED <<iter_log, iter_resp, iter_sock, errors_at_send>>
    /\ UNCHANGED <<pt_vars, mtx, dev_vars, in_vars>>

\* kbd->get() throws KeyboardError: the catch block disables the keyboard.
RunReadError ==
    /\ pc = "poll"
    /\ \E idx \in 1..Len(snap) :
         /\ kbd' = snap[idx]
         /\ kbd_state' = [kbd_state EXCEPT ![snap[idx]] = KbdDisable(@)]
    /\ snap' = <<>>
    /\ pc' = "erase"
    /\ UNCHANGED <<had_key, action, is_passthrough, errors, udev_queue>>
    /\ UNCHANGED <<kbds, available_kbds, pulled_kbds>>
    /\ UNCHANGED <<pt_vars, mtx, hist_vars, in_vars>>

\* an inner block whose lock_guard lives on to the end of the catch block:
\* available_kbds_mtx stays with the runloop
EraseBlockKeepsLock(m) == [m EXCEPT !["avail"] = "run"]

\* the closing brace of the inner block of the catch block: its lock_guard is
\* destroyed and available_kbds_mtx is as it was before the block
EraseBlockEnd(m) == m

\* the closing brace of the catch block: the mutexes the runloop holds are free
CatchBlockEnd(m) == [x \in DOMAIN m |-> IF m[x] = "run" THEN "free" ELSE m[x]]

\* catch block: find + erase in available_kbds under available_kbds_mtx.
\* erase(end()) of a keyboard that is not in the vector is undefined.
RunErase ==
    /\ pc = "erase"
    /\ mtx["avail"] = "free"
    /\ IF kbd \in Range(available_kbds)
       THEN /\ available_kbds' = RemoveFirst(available_kbds, kbd)
            /\ pc' = "pull"
       ELSE /\ available_kbds' \in {available_kbds, <<>>}
            /\ pc' \in {"pull", "undefined"}
    /\ mtx' = EraseBlockEnd(mtx)
    /\ UNCHANGED <<snap, kbd, had_key, action, is_passthrough, errors, udev_queue>>
    /\ UNCHANGED <<kbds, kbd_state, pulled_kbds>>
    /\ UNCHANGED <<pt_vars, hist_vars, in_vars>>

\* catch block: pulled_kbds.push_back(kbd) under pulled_kbds_mtx; had_key is
\* false, so the loop continues.
RunPull ==
    /\ pc = "pull"
    /\ mtx["pulled"] = "free"
    /\ pulled_kbds' = Append(pulled_kbds, kbd)
    /\ pc' = "top"
    /\ outcome' = "readerr"
    /\ UNCHANGED <<snap, kbd, had_key, action, is_passthrough, errors, udev_queue>>
    /\ UNCHANGED <<orig_ev, iter_log, iter_resp, iter_sock, errors_at_send, read_state>>
    /\ mtx' = CatchBlockEnd(mtx)
    /\ UNCHANGED <<kbds, kbd_state, available_kbds>>
    /\ UNCHANGED <<pt_vars, in_vars>>

\* a lookup that does not take passthrough_keys_mtx
LookupUnlocked(m) == TRUE

\* lock_guard<mutex> lock(passthrough_keys_mtx) of the lookup: it is entered
\* only while the keys_fsw callback does not hold the mutex
LookupLocked(m) == m["pt"] = "free"

\* is_passthrough = passthrough_keys.count(action.ev.code), under passthrough_keys_mtx
RunLookup ==
    /\ pc = "lookup"
    /\ LookupLocked(mtx)
    /\ is_passthrough' = IsPassthrough(action.ev.code, passthrough_keys)
    /\ pc' = IF IsPassthrough(action.ev.code, passthrough_keys) THEN "send" ELSE "emit"
    /\ UNCHANGED <<snap, kbd, had_key, action, errors, udev_queue>>
    /\ UNCHANGED <<pt_vars, mtx, dev_vars, hist_vars, in_vars>>

\* kbd_com.send(&action); a SocketError leads to the catch block. The socket
\* fails only while fewer than cap errors have been counted.
RunSend(cap) ==
    /\ pc = "send"
    /\ iter_sock' = iter_sock + 1
    /\ errors_at_send' = errors
    /\ \/ pc' = "recv"
       \/ errors < cap /\ pc' = "sockerr"
    /\ UNCHANGED <<snap, kbd, had_key, action, is_passthrough, errors, udev_queue>>
    /\ UNCHANGED <<orig_ev, iter_log, iter_resp, outcome, read_state>>
    /\ UNCHANGED <<pt_vars, mtx, dev_vars, in_vars>>

\* One pass of the receive loop: kbd_com.recv(&action) overwrites action; a
\* record with done set ends the round trip (flush, errors = 0, continue), any
\* other record is emitted; a SocketError leads to the catch block.
RunRecv(cap) ==
    /\ pc = "recv"
    /\ iter_sock' = iter_sock + 1
    /\ \/ /\ errors < cap
          /\ pc' = "sockerr"
          /\ UNCHANGED <<action, errors, udev_queue, iter_log, iter_resp, outcome>>
       \/ \E r \in RespRecords :
            /\ action' = r
            /\ IF r.done # 0
               THEN /\ udev_queue' = <<>>
                    /\ iter_log' = Append(iter_log, FlushOp)
                    /\ errors' = ErrorsAfterRoundTrip(errors)
                    /\ pc' = "top"
                    /\ outcome' = "ok"
                    /\ UNCHANGED iter_resp
               ELSE /\ Len(iter_resp) < MaxResp
                    /\ udev_queue' = Append(udev_queue, RecvEmitEv(r))
                    /\ iter_log' = Append(iter_log, EmitOp(RecvEmitEv(r)))
                    /\ iter_resp' = Append(iter_resp, r.ev)
                    /\ UNCHANGED <<pc, errors, outcome>>
    /\ UNCHANGED <<snap, kbd, had_key, is_passthrough, orig_ev, errors_at_send, read_state>>
    /\ UNCHANGED <<pt_vars, mtx, dev_vars, in_vars>>

\* kbd_com.recv(&action) while MACROD neither answers nor closes the socket:
\* the call is a blocking read without a deadline (the select() with a
\* time-out is a TODO), so it does not return and no step leaves "blocked".
RunRecvStalled ==
    /\ pc = "recv"
    /\ pc' = "blocked"
    /\ iter_sock' = iter_sock + 1
    /\ UNCHANGED <<snap, kbd, had_key, action, is_passthrough, errors, udev_queue>>
    /\ UNCHANGED <<orig_ev, iter_log, iter_resp, outcome, errors_at_send, read_state>>
    /\ UNCHANGED <<pt_vars, mtx, dev_vars, in_vars>>

\* a catch block that ends with continue
AfterSockErrContinue == "top"

\* On error control flow continues on to udev.emit()
AfterSockErr == "emit"

\* catch (SocketError): the budget is not exhausted, control continues to the emit
RunSockErr ==
    /\ pc = "sockerr"
    /\ ~BudgetExceeded(errors)
    /\ errors' = ErrorsAfterFailure(errors)
    /\ pc' = AfterSockErr
    /\ UNCHANGED <<snap, kbd, had_key, action, is_passthrough, udev_queue>>
    /\ UNCHANGED <<pt_vars, mtx, dev_vars, hist_vars, in_vars>>

\* catch (SocketError): kbd_com.close(); abort();
RunAbort ==
    /\ pc = "sockerr"
    /\ BudgetExceeded(errors)
    /\ errors' = ErrorsAfterFailure(errors)
    /\ pc' = "aborted"
    /\ outcome' = "aborted"
    /\ UNCHANGED <<snap, kbd, had_key, action, is_passthrough, udev_queue>>
    /\ UNCHANGED <<orig_ev, iter_log, iter_resp, iter_sock, errors_at_send, read_state>>
    /\ UNCHANGED <<pt_vars, mtx, dev_vars, in_vars>>

\* udev.emit(&action.ev); udev.flush(); at the end of the loop body
RunEmit ==
    /\ pc = "emit"
    /\ iter_log' = iter_log \o <<EmitOp(action.ev), FlushOp>>
    /\ udev_queue' = <<>>
    /\ pc' = "top"
    /\ outcome' = IF is_passthrough THEN "fallback" ELSE "verbatim"
    /\ UNCHANGED <<snap, kbd, had_key, action, is_passthrough, errors>>
    /\ UNCHANGED <<orig_ev, iter_resp, iter_sock, errors_at_send, read_state>>
    /\ UNCHANGED <<pt_vars, mtx, dev_vars, in_vars>>

(***************************************************************************)
(* input_fsw callback (/dev/input reactor)                                 *)
(***************************************************************************)
FSW_MAX_WAIT_PERMISSIONS_US == 5000000

\* int wait_inc_us = 100;
WAIT_INC_US == 100

\* gid of the group "input" (getgrnam_r)
InputGid == 104

\* S_ISCHR(m): (m & S_IFMT) == S_IFCHR
S_ISCHR(m) == (m \div 4096) % 16 = 2

\* m & S_IRWXG
GrpPerm(m) == ((m \div 8) % 8) * 8

\* st_mode of a character device with 0600 / with 0660, of a regular file with 0644
ChrMode600 == 8192 + 384
ChrMode660 == 8192 + 432
RegMode644 == 32768 + 420

\* Events of the /dev/input watch for a device node: isMe(path) holds for the
\* keyboards in `matches`; st_mode is the stat taken when the event was made.
InputEvents(kv) ==
    [path : {"/dev/input/event7"}, matches : SUBSET Range(kv),
     st_mode : {ChrMode660, RegMode644}]

NoInputEvent == [path |-> NULL]

\* what one stat() in the wait loop yields; with ret = -1 stbuf holds anything
StatResults == [ret : {0, -1}, st_mode : {ChrMode600, ChrMode660}, st_gid : {0, InputGid}]

\* the condition of the do-while: true means another round of waiting
KeepWaiting(st) ==
    /\ st.ret # -1
    /\ ~(HasBit(GrpPerm(st.st_mode), 4) /\ HasBit(GrpPerm(st.st_mode), 2))
    /\ st.st_gid # InputGid

\* a wait loop without the cap
WaitCapNever(w) == FALSE

\* if ((wait_time += wait_inc_us) > FSW_MAX_WAIT_PERMISSIONS_US)
WaitCapHit(w) == w > FSW_MAX_WAIT_PERMISSIONS_US

\* rounds of the wait loop taken in one step: one, or as many as fit in the cap
WaitRounds == {1, FSW_MAX_WAIT_PERMISSIONS_US \div WAIT_INC_US}

\* most single rounds of waiting followed one by one
MaxSpin == 2

\* return true; the lock_guard on pulled_kbds_mtx goes out of scope
InReturn ==
    /\ i_pc' = "idle"
    /\ i_ev' = NoInputEvent
    /\ i_it' = 0
    /\ wait_time' = 0
    /\ mtx' = [mtx EXCEPT !["pulled"] = "free"]

\* if (ev.path == "/dev/input") return true;
InDirEvent ==
    /\ i_pc = "idle"
    /\ UNCHANGED vars

\* An event for a device node: take pulled_kbds_mtx, it = pulled_kbds.begin().
InBeginWith(events) ==
    /\ i_pc = "idle"
    /\ mtx["pulled"] = "free"
    /\ \E ev \in events : i_ev' = ev
    /\ i_it' = 1
    /\ i_pc' = "loop"
    /\ mtx' = [mtx EXCEPT !["pulled"] = "in"]
    /\ UNCHANGED wait_time
    /\ UNCHANGED <<pt_vars, dev_vars, run_vars, hist_vars>>

\* the callback entered with any event for a device node
InBegin == InBeginWith(InputEvents(kbds))

\* for (...; it != pulled_kbds.end(); ...): the loop head
InLoop ==
    /\ i_pc = "loop"
    /\ IF i_it > Len(pulled_kbds)
       THEN InReturn
       ELSE /\ wait_time' = 0
            /\ i_pc' = "wait"
            /\ UNCHANGED <<i_ev, i_it, mtx>>
    /\ UNCHANGED <<pt_vars, dev_vars, run_vars, hist_vars>>

\* n rounds of the do-while: n - 1 rounds in which stat() succeeded on a
\* character device and the condition asked for another round, then one round
\* with the stat result st.
InWaitWith(stats) ==
    /\ i_pc = "wait"
    /\ \E st \in stats, n \in WaitRounds :
         LET w == wait_time + n * WAIT_INC_US
         IN  /\ n > 1 => /\ S_ISCHR(i_ev.st_mode)
                         /\ wait_time + (n - 1) * WAIT_INC_US <= FSW_MAX_WAIT_PERMISSIONS_US
             /\ IF st.ret # -1 /\ ~S_ISCHR(i_ev.st_mode)
                THEN InReturn
                ELSE IF WaitCapHit(w)
                THEN InReturn
                ELSE IF KeepWaiting(st)
                THEN /\ w <= MaxSpin * WAIT_INC_US \/ w = FSW_MAX_WAIT_PERMISSIONS_US
                     /\ wait_time' = w
                     /\ UNCHANGED <<i_pc, i_ev, i_it, mtx>>
                ELSE /\ wait_time' = w
                     /\ i_pc' = "isme"
                     /\ UNCHANGED <<i_ev, i_it, mtx>>
    /\ UNCHANGED <<pt_vars, dev_vars, run_vars, hist_vars>>

\* the wait loop with any result of stat()
InWait == InWaitWith(StatResults)

\* if (kbd->isMe(path)) { kbd->reset(path); kbd->lock(); ... } else the next keyboard
InIsMe ==
    /\ i_pc = "isme"
    /\ IF pulled_kbds[i_it] \in i_ev.matches
       THEN /\ kbd_state' = [kbd_state EXCEPT ![pulled_kbds[i_it]] = KbdLock(KbdReset(@))]
            /\ i_pc' = "lock_avail"
            /\ UNCHANGED i_it
       ELSE /\ i_it' = i_it + 1
            /\ i_pc' = "loop"
            /\ UNCHANGED kbd_state
    /\ UNCHANGED <<i_ev, wait_time, mtx>>
    /\ UNCHANGED <<kbds, available_kbds, pulled_kbds>>
    /\ UNCHANGED <<pt_vars, run_vars, hist_vars>>

\* lock_guard lock(available_kbds_mtx), taken while pulled_kbds_mtx is held
InLockAvail ==
    /\ i_pc = "lock_avail"
    /\ mtx["avail"] = "free"
    /\ mtx' = [mtx EXCEPT !["avail"] = "in"]
    /\ i_pc' = "push"
    /\ UNCHANGED <<i_ev, i_it, wait_time>>
    /\ UNCHANGED <<pt_vars, dev_vars, run_vars, hist_vars>>

\* available_kbds.push_back(kbd); the inner lock_guard goes out of scope
InPush ==
    /\ i_pc = "push"
    /\ available_kbds' = Append(available_kbds, pulled_kbds[i_it])
    /\ mtx' = [mtx EXCEPT !["avail"] = "free"]
    /\ i_pc' = "erase"
    /\ UNCHANGED <<i_ev, i_it, wait_time>>
    /\ UNCHANGED <<kbds, kbd_state, pulled_kbds>>
    /\ UNCHANGED <<pt_vars, run_vars, hist_vars>>

\* pulled_kbds.erase(it); break; return true;
InErase ==
    /\ i_pc = "erase"
    /\ pulled_kbds' = RemoveAt(pulled_kbds, i_it)
    /\ InReturn
    /\ UNCHANGED <<kbds, kbd_state, available_kbds>>
    /\ UNCHANGED <<pt_vars, run_vars, hist_vars>>

(***************************************************************************)
(* The single-device variant of the daemon (second half of KBDDaemon.cpp): *)
(* one keyboard, no buckets, no mutexes; the runloop itself handles the    *)
(* passthrough file events after every key.                                *)
(***************************************************************************)
\* 10 consecutive socket errors will lead to the keyboard daemon aborting.
MAX_ERRORS_SINGLE == 10

\* contents of the key_code column the single-device variant is run with
SingleCsvResults ==
    { CsvCells(<<>>),
      CsvCells(<< <<"3","0">> >>),
      CsvCells(<< <<"3","0">>, <<"3","1">> >>),
      CsvCells(<< <<"3","1">>, <<"x">>, <<"3","0">> >>),
      CSVError }

RECURSIVE SingleCells(_, _, _)
\* the loop over the cells without a try around stoi: the first cell stoi
\* rejects ends the loop with an exception (thrown = TRUE)
SingleCells(cells, pk, acc) ==
    IF cells = <<>> THEN [thrown |-> FALSE, pk |-> pk, cells_i |-> acc]
    ELSE LET r == Stoi(Head(cells))
         IN  IF ~r.ok THEN [thrown |-> TRUE, pk |-> pk, cells_i |-> acc]
             ELSE IF r.val >= 0
             THEN SingleCells(Tail(cells), pk \cup {r.val}, Append(acc, r.val))
             ELSE SingleCells(Tail(cells), pk, acc)

\* loadPassthrough(path) of the single-device variant after the unload:
\* catch (invalid_argument) swallows stoi's exception after the codes of the
\* cells before it were inserted; key_sources[path] is then not assigned.
SingleParseAndInsert(ks, pk, path, csv) ==
    IF csv.err
    THEN [ks |-> ks, pk |-> pk]
    ELSE LET r == SingleCells(csv.cells, pk, <<>>)
         IN  IF r.thrown
             THEN [ks |-> ks, pk |-> r.pk]
             ELSE [ks |-> [p \in (DOMAIN ks) \cup {path} |->
                              IF p = path THEN r.cells_i ELSE ks[p]],
                   pk |-> r.pk]

\* if (errors++ > MAX_ERRORS) of the single-device variant
SingleBudgetExceeded(e) == e > MAX_ERRORS_SINGLE

\* action.done = 0; kbd.get(&action.ev) delivers an event
SingleGet ==
    /\ pc = "top"
    /\ \E e \in DevEvents :
         /\ action' = [ev |-> e, done |-> 0]
         /\ orig_ev' = e
    /\ kbd' = kbds[1]
    /\ read_state' = kbd_state[kbds[1]]
    /\ had_key' = TRUE
    /\ is_passthrough' = FALSE
    /\ iter_log' = <<>>
    /\ iter_resp' = <<>>
    /\ iter_sock' = 0
    /\ outcome' = "running"
    /\ errors_at_send' = 0
    /\ pc' = "fs"
    /\ UNCHANGED <<snap, errors, udev_queue>>
    /\ UNCHANGED <<pt_vars, mtx, dev_vars, in_vars>>

\* kbd.get() throws KeyboardError: kbd_com.close(); abort();
SingleGetError ==
    /\ pc = "top"
    /\ pc' = "aborted"
    /\ outcome' = "readerr"
    /\ UNCHANGED <<snap, kbd, had_key, action, is_passthrough, errors, udev_queue>>
    /\ UNCHANGED <<orig_ev, iter_log, iter_resp, iter_sock, errors_at_send, read_state>>
    /\ UNCHANGED <<pt_vars, mtx, dev_vars, in_vars>>

\* One event of fsw.getEvents(): unloadPassthrough or loadPassthrough(ev).
\* realpath() failing throws SystemError, which loadPassthrough does not
\* catch: it leaves run() and main() prints it and returns.
SingleFsEvent ==
    /\ pc = "fs"
    /\ \E ev \in KeyFSEvents :
         IF IsUnloadEvent(ev)
         THEN LET u == UnloadPassthrough(key_sources, passthrough_keys, ev.path)
              IN  /\ key_sources' = u.ks
                  /\ passthrough_keys' = u.pk
                  /\ k_last' = [kind |-> "unload", before |-> key_sources]
                  /\ UNCHANGED <<pc, outcome>>
         ELSE IF IsLoadEvent(ev) /\ PermOK(ev)
         THEN \E rp \in RealpathResults(ev.path), csv \in SingleCsvResults :
                IF rp = NULL
                THEN /\ pc' = "exited"
                     /\ outcome' = "nopath"
                     /\ k_last' = [kind |-> "nopath", before |-> key_sources]
                     /\ UNCHANGED <<key_sources, passthrough_keys>>
                ELSE LET u == UnloadPassthrough(key_sources, passthrough_keys, rp)
                         r == SingleParseAndInsert(u.ks, u.pk, rp, csv)
                     IN  /\ key_sources' = r.ks
                         /\ passthrough_keys' = r.pk
                         /\ k_last' = [kind |-> IF csv.err THEN "csverror"
                                                ELSE IF rp \in DOMAIN r.ks THEN "loaded"
                                                ELSE "stoierror",
                                       before |-> key_sources,
                                       path |-> rp, cells |-> csv.cells]
                         /\ UNCHANGED <<pc, outcome>>
         ELSE /\ k_last' = [kind |-> IF IsLoadEvent(ev) THEN "rejected" ELSE "ignored",
                            before |-> key_sources]
              /\ UNCHANGED <<key_sources, passthrough_keys, pc, outcome>>
    /\ UNCHANGED <<k_pc, k_ev, k_path>>
    /\ UNCHANGED <<snap, kbd, had_key, action, is_passthrough, errors, udev_queue>>
    /\ UNCHANGED <<orig_ev, iter_log, iter_resp, iter_sock, errors_at_send, read_state>>
    /\ UNCHANGED <<mtx, dev_vars, in_vars>>

\* The events are handled: if (passthrough_keys.count(action.ev.code))
SingleLookup ==
    /\ pc = "fs"
    /\ is_passthrough' = IsPassthrough(action.ev.code, passthrough_keys)
    /\ pc' = IF IsPassthrough(action.ev.code, passthrough_keys) THEN "send" ELSE "emit"
    /\ UNCHANGED <<snap, kbd, had_key, action, errors, udev_queue>>
    /\ UNCHANGED <<pt_vars, mtx, dev_vars, hist_vars, in_vars>>

\* catch (SocketError): the budget is not exhausted, control continues to the emit
SingleSockErr ==
    /\ pc = "sockerr"
    /\ ~SingleBudgetExceeded(errors)
    /\ errors' = errors + 1
    /\ pc' = "emit"
    /\ UNCHANGED <<snap, kbd, had_key, action, is_passthrough, udev_queue>>
    /\ UNCHANGED <<pt_vars, mtx, dev_vars, hist_vars, in_vars>>

\* catch (SocketError): kbd_com.close(); abort();
SingleAbort ==
    /\ pc = "sockerr"
    /\ SingleBudgetExceeded(errors)
    /\ errors' = errors + 1
    /\ pc' = "aborted"
    /\ outcome' = "aborted"
    /\ UNCHANGED <<snap, kbd, had_key, action, is_passthrough, udev_queue>>
    /\ UNCHANGED <<orig_ev, iter_log, iter_resp, iter_sock, errors_at_send, read_state>>
    /\ UNCHANGED <<pt_vars, mtx, dev_vars, in_vars>>

(***************************************************************************)
(* Specifications                                                          *)
(***************************************************************************)
\* The state when the runloop is entered: the constructor has run
\* initPassthrough on the listing, run() has locked the keyboards in kv and
\* called updateAvailableKBDs.
InitWith(listings, kv, sts) ==
    /\ \E files \in listings :
         LET r == InitPassthrough(EmptyMap, {}, files)
         IN  /\ key_sources = r.ks
             /\ passthrough_keys = r.pk
    /\ k_pc = "idle"
    /\ k_ev = NoFSEvent
    /\ k_path = NULL
    /\ k_last = [kind |-> "none", before |-> EmptyMap]
    /\ mtx = [m \in {"pt", "avail", "pulled"} |-> "free"]
    /\ kbds = kv
    /\ kbd_state \in [Range(kv) -> sts]
    /\ available_kbds = UpdateAvailableKBDs(kv, kbd_state)
    /\ pulled_kbds = <<>>
    /\ pc = "top"
    /\ snap = <<>>
    /\ kbd = NULL
    /\ had_key = FALSE
    /\ action = [ev |-> NoEv, done |-> 0]
    /\ is_passthrough = FALSE
    /\ errors = 0
    /\ udev_queue = <<>>
    /\ orig_ev = NoEv
    /\ iter_log = <<>>
    /\ iter_resp = <<>>
    /\ iter_sock = 0
    /\ outcome = "none"
    /\ errors_at_send = 0
    /\ read_state = "none"
    /\ i_pc = "idle"
    /\ i_ev = NoInputEvent
    /\ i_it = 0
    /\ wait_time = 0

\* consecutive socket failures MACROD produces in Spec
MaxConsecFail == 2

Init == InitWith(StartupListings, ConfiguredKbds, StartupKbdStates)

RunloopCommon ==
    \/ RunTop
    \/ RunPollTimeout
    \/ RunRead
    \/ RunReadError
    \/ RunErase
    \/ RunPull
    \/ RunLookup
    \/ RunSockErr
    \/ RunEmit

InputReactor ==
    \/ InDirEvent
    \/ InBegin
    \/ InLoop
    \/ InWait
    \/ InIsMe
    \/ InLockAvail
    \/ InPush
    \/ InErase

\* The runloop and the /dev/input reactor.
Next ==
    \/ RunloopCommon
    \/ RunSend(MaxConsecFail)
    \/ RunRecv(MaxConsecFail)
    \/ InputReactor

Spec == Init /\ [][Next]_vars

\* The passthrough files: the keys_fsw callback on its own.
NextPT ==
    \/ KeysBegin
    \/ KeysDispatch
    \/ KeysParse

InitPT == InitWith(StartupListings, ConfiguredKbds, {"LOCKED"})

SpecPT == InitPT /\ [][NextPT]_vars

\* The socket error budget: one keyboard, the runloop alone, MACROD failing
\* any number of times in a row.
InitBudget == InitWith(StartupListings, <<"k1">>, {"LOCKED"})

NextBudget ==
    \/ RunloopCommon
    \/ RunSend(MAX_ERRORS + 2)
    \/ RunRecv(MAX_ERRORS + 2)
    \/ RunAbort

SpecBudget == InitBudget /\ [][NextBudget]_vars

\* The runloop alone with one keyboard and a MACROD that may stall; the
\* runloop is a thread of its own that runs whenever it is not blocked in a
\* call, hence the weak fairness on its steps.
NextStall ==
    \/ RunloopCommon
    \/ RunSend(MaxConsecFail)
    \/ RunRecv(MaxConsecFail)
    \/ RunRecvStalled

SpecStall == InitBudget /\ [][NextStall]_vars /\ WF_vars(NextStall)

\* events of the keys directory that pass the permission gate: a.csv or b.csv
\* was modified or deleted
AcceptedFSEvents ==
    [path : {"keys/a.csv", "keys/b.csv"}, mask : {IN_MODIFY, IN_DELETE_SELF},
     st_mode : {32768 + MODE_0644}, st_uid : {DaemonUid}, added : {FALSE}]

\* contents the files are rewritten with next to the runloop
RewriteCsvResults ==
    { CsvCells(<< <<"3","0">> >>), CsvCells(<< <<"3","0">>, <<"3","1">> >>), CSVError }

\* Hot-plug: the device node of a keyboard appears only after its read has
\* failed (the keyboard is disabled), it is a character device ...
ReplugEvents ==
    { [path |-> "/dev/input/event7", matches |-> {k}, st_mode |-> ChrMode660] :
        k \in {x \in Range(kbds) : kbd_state[x] = "DISABLED"} }

\* ... and stat() finds it owned by the input group with rw for the group
ReplugStats == { [ret |-> 0, st_mode |-> ChrMode660, st_gid |-> InputGid] }

RunloopHotplug ==
    \/ RunloopCommon
    \/ RunSend(MaxConsecFail)
    \/ RunRecv(MaxConsecFail)

\* the steps of the callback once it has been entered
ReactorHotplug ==
    \/ InLoop
    \/ InWaitWith(ReplugStats)
    \/ InIsMe
    \/ InLockAvail
    \/ InPush
    \/ InErase

NextHotplug ==
    \/ RunloopHotplug
    \/ InBeginWith(ReplugEvents)
    \/ ReactorHotplug

\* The runloop and the inotify thread are scheduled fairly: each takes its
\* next step when it can. Nothing obliges a device node to appear.
SpecHotplug ==
    /\ InitBudget
    /\ [][NextHotplug]_vars
    /\ WF_vars(RunloopHotplug)
    /\ WF_vars(ReactorHotplug)

\* Results of stat() on a device node that never gets what the wait loop is
\* said to wait for: the call succeeds, but the group is not input or the
\* group lacks rw (0600), or both.
UnreadyStats ==
    { [ret |-> 0, st_mode |-> ChrMode600, st_gid |-> InputGid],
      [ret |-> 0, st_mode |-> ChrMode660, st_gid |-> 0],
      [ret |-> 0, st_mode |-> ChrMode600, st_gid |-> 0] }

NextUnready ==
    \/ RunloopHotplug
    \/ InBegin
    \/ InLoop
    \/ InWaitWith(UnreadyStats)
    \/ InIsMe
    \/ InLockAvail
    \/ InPush
    \/ InErase

\* The runloop and the input_fsw callback with device nodes that never become
\* ready.
SpecUnready == InitBudget /\ [][NextUnready]_vars

\* The keys_fsw callback next to the runloop: one keyboard that does not
\* fail and a MACROD that answers.
NextKeys ==
    \/ KeysBeginWith(AcceptedFSEvents)
    \/ KeysDispatch
    \/ KeysParseWith(RewriteCsvResults)
    \/ RunTop
    \/ RunPollTimeout
    \/ RunRead
    \/ RunLookup
    \/ RunSend(0)
    \/ RunRecv(0)
    \/ RunEmit

SpecKeys == InitBudget /\ [][NextKeys]_vars

\* The single-device variant: its runloop with the passthrough file events it
\* handles itself, MACROD failing any number of times in a row.
InitSingle == InitWith(StartupListings, <<"k1">>, {"LOCKED"})

NextSingle ==
    \/ SingleGet
    \/ SingleGetError
    \/ SingleFsEvent
    \/ SingleLookup
    \/ RunSend(MAX_ERRORS_SINGLE + 2)
    \/ RunRecv(MAX_ERRORS_SINGLE + 2)
    \/ SingleSockErr
    \/ SingleAbort
    \/ RunEmit

SpecSingle == InitSingle /\ [][NextSingle]_vars

(***************************************************************************)
(* Properties                                                              *)
(***************************************************************************)
InAvailable(k) == k \in Range(available_kbds)
InPulled(k) == k \in Range(pulled_kbds)

RECURSIVE EmitsOf(_)
EmitsOf(evs) == IF evs = <<>> THEN <<>> ELSE <<EmitOp(Head(evs))>> \o EmitsOf(Tail(evs))

\* C1: whenever no callback is in progress, a code is in passthrough_keys iff
\* some file present in key_sources contributed it.
C1_SetIsUnionOfSources ==
    k_pc = "idle" =>
        \A c \in passthrough_keys \cup SourceCodes(key_sources) \cup {30, 31} :
            (c \in passthrough_keys) <=> (\E p \in DOMAIN key_sources : c \in Range(key_sources[p]))

\* a.csv and b.csv both contributed 30, b.csv also 31; b.csv was unloaded
C1_Witness ==
    /\ k_pc = "idle"
    /\ k_last.kind = "unload"
    /\ DOMAIN k_last.before = {"keys/a.csv", "keys/b.csv"}
    /\ 30 \in Range(k_last.before["keys/a.csv"])
    /\ {30, 31} \subseteq Range(k_last.before["keys/b.csv"])
    /\ DOMAIN key_sources = {"keys/a.csv"}
    /\ 30 \in passthrough_keys
    /\ 31 \notin passthrough_keys

\* C2: the dispatch of a load event whose file mode is not 0644 or whose owner
\* is not the daemon's uid changes neither passthrough_keys nor key_sources.
C2_RejectedLoadChangesNothing ==
    [][ ( /\ k_pc = "dispatch"
          /\ ~HasBit(k_ev.mask, IN_DELETE_SELF)
          /\ (k_ev.st_mode % 512 # 420 \/ k_ev.st_uid # DaemonUid) )
        => ( /\ passthrough_keys' = passthrough_keys
             /\ key_sources' = key_sources
             /\ k_pc' = "idle" ) ]_vars

\* a load event for a loaded file was rejected and the file's codes are still there
C2_Witness ==
    /\ k_pc = "idle"
    /\ k_last.kind = "rejected"
    /\ "keys/b.csv" \in DOMAIN k_last.before
    /\ key_sources = k_last.before
    /\ 31 \in passthrough_keys

\* C3: an event read from a keyboard that was not LOCKED when it was read is
\* neither sent to MACROD nor emitted: the iteration ends at once.
C3_UnlockedKeyDiscarded ==
    (orig_ev # NoEv /\ read_state # "LOCKED") =>
        /\ pc = "top"
        /\ iter_sock = 0
        /\ iter_log = <<>>

\* a key of a passthrough code was read from a keyboard in state INITIAL
C3_Witness ==
    /\ pc = "top"
    /\ orig_ev # NoEv
    /\ read_state = "INITIAL"
    /\ orig_ev.code \in passthrough_keys

\* C4 (as claimed): an iteration that ends after a SocketError has emitted the
\* responses received so far and then the key read from the keyboard, once.
C4_FallbackEmitsOriginalOnce ==
    (pc = "top" /\ outcome = "fallback") =>
        iter_log = EmitsOf(iter_resp) \o <<EmitOp(orig_ev), FlushOp>>

\* C5: after a finished round trip the error counter is 0 at the start of the
\* next iteration.
C5_CounterResetAfterRoundTrip ==
    (pc = "top" /\ outcome = "ok") => errors = 0

\* a round trip that began with errors counted has finished
C5_Witness ==
    /\ pc = "top"
    /\ outcome = "ok"
    /\ errors_at_send > 0
    /\ errors = 0

\* C6 (as claimed): the process is aborted exactly when more than MAX_ERRORS
\* consecutive socket errors have been counted, that is on the 31st.
C6_AbortOnThirtyFirstError ==
    /\ pc = "aborted" => errors = MAX_ERRORS + 1
    /\ errors > MAX_ERRORS => pc = "aborted"

\* C7 (as claimed): whenever both vectors can be inspected (neither mutex is
\* held), every configured keyboard is in exactly one of them.
C7_ExactlyOneBucket ==
    (mtx["avail"] = "free" /\ mtx["pulled"] = "free") =>
        \A k \in Range(kbds) : InAvailable(k) # InPulled(k)

\* C8: a finished round trip has emitted exactly the response events received
\* before the done record, in order, then flushed once; the key read from the
\* keyboard is not emitted verbatim.
C8_RoundTripEmitsResponses ==
    (pc = "top" /\ outcome = "ok") =>
        /\ read_state = "LOCKED"
        /\ orig_ev.code \in passthrough_keys
        /\ iter_log = EmitsOf(iter_resp) \o <<FlushOp>>
        /\ udev_queue = <<>>

\* two different responses, neither the key that was read, have been emitted
C8_Witness ==
    /\ pc = "top"
    /\ outcome = "ok"
    /\ orig_ev = KeyEv(30, 1)
    /\ iter_resp = <<KeyEv(48, 1), KeyEv(30, 1)>>
    /\ iter_log = <<EmitOp(KeyEv(48, 1)), EmitOp(KeyEv(30, 1)), FlushOp>>

\* C9: a key from a LOCKED keyboard whose code is not in passthrough_keys
\* causes no socket call, and is emitted verbatim once and flushed.
C9_NonPassthroughVerbatim ==
    (orig_ev # NoEv /\ read_state = "LOCKED" /\ orig_ev.code \notin passthrough_keys) =>
        /\ iter_sock = 0
        /\ pc \in {"lookup", "emit", "top"}
        /\ pc = "top" => /\ iter_log = <<EmitOp(orig_ev), FlushOp>>
                         /\ udev_queue = <<>>

\* key 31 was read while only 30 is a passthrough key, and was emitted
C9_Witness ==
    /\ pc = "top"
    /\ read_state = "LOCKED"
    /\ orig_ev = KeyEv(31, 1)
    /\ passthrough_keys = {30}
    /\ iter_sock = 0
    /\ iter_log = <<EmitOp(KeyEv(31, 1)), FlushOp>>

\* C10: a read error disables the keyboard that was read and no other; that
\* keyboard leaves available_kbds and enters pulled_kbds, no other keyboard
\* moves, and the runloop starts its next iteration.
C10_ReadErrorPullsKeyboard ==
    [][ /\ (pc = "poll" /\ pc' = "erase") =>
             /\ kbd' \in Range(snap)
             /\ kbd_state' = [kbd_state EXCEPT ![kbd'] = "DISABLED"]
        /\ (pc = "erase" /\ pc' # "erase") =>
             /\ pc' = "pull"
             /\ ~InAvailable(kbd)'
             /\ \A k \in Range(kbds) \ {kbd} : InAvailable(k)' = InAvailable(k)
        /\ (pc = "pull" /\ pc' # "pull") =>
             /\ pc' = "top"
             /\ kbd_state'[kbd] = "DISABLED"
             /\ ~InAvailable(kbd)'
             /\ InPulled(kbd)'
             /\ \A k \in Range(kbds) \ {kbd} : InPulled(k)' = InPulled(k)
      ]_vars

\* k1 failed and sits in pulled_kbds, disabled; k2 is still available
C10_Witness ==
    /\ pc = "top"
    /\ outcome = "readerr"
    /\ kbd = "k1"
    /\ kbd_state = [k \in {"k1", "k2"} |-> IF k = "k1" THEN "DISABLED" ELSE "LOCKED"]
    /\ pulled_kbds = <<"k1">>
    /\ available_kbds = <<"k2">>

\* C11 (as claimed): the process ends only by the abort of the socket error
\* budget, in a state where more than MAX_ERRORS consecutive socket errors
\* were counted; a device read error or a failed passthrough reload never
\* ends it.
C11_AbortOnlyOnSocketBudget ==
    pc \in {"aborted", "exited"} =>
        /\ outcome = "aborted"
        /\ errors > MAX_ERRORS_SINGLE

\* C12 (as claimed): a receive that waits on a stalled MACROD ends: the wait
\* is cut off with a SocketError and the iteration finishes with the fallback
\* emit, so that the runloop is at the top of its loop again.
C12_StalledRecvEndsInFallback ==
    (pc = "blocked") ~> (pc = "top" /\ outcome = "fallback")

\* C13 (as claimed): when the reload of a file that is loaded fails, because
\* realpath() fails or because the CSV raises an error, the codes the file
\* contributed before the callback are in passthrough_keys after it.
C13_FailedReloadKeepsContribution ==
    [][ /\ ( /\ k_pc = "dispatch"
             /\ k_last'.kind = "nopath"
             /\ Canon(k_ev.path) \in DOMAIN k_last.before )
           => Range(k_last.before[Canon(k_ev.path)]) \subseteq passthrough_keys'
        /\ ( /\ k_pc = "parse"
             /\ k_last'.kind = "csverror"
             /\ k_path \in DOMAIN k_last.before )
           => Range(k_last.before[k_path]) \subseteq passthrough_keys'
      ]_vars

\* C14: the runloop's lookup never happens while a load or unload of the
\* keys_fsw callback is in progress, and its answer is whether some file
\* that is loaded contributed the code: a code of a file that stays loaded,
\* or that is being reloaded, is not seen as absent.
C14_LookupSeesNoIntermediateState ==
    [][ (pc = "lookup" /\ pc' # "lookup") =>
            /\ k_pc = "idle"
            /\ is_passthrough' = (action.ev.code \in SourceCodes(key_sources))
      ]_vars

\* the runloop has a key of code 30 to look up while a reload has removed the
\* file's codes and not yet inserted them again: 30 was contributed before
\* the callback began and is missing from the set at this moment
C14_Witness ==
    /\ pc = "lookup"
    /\ k_pc = "parse"
    /\ mtx["pt"] = "keys"
    /\ action.ev.code = 30
    /\ 30 \in SourceCodes(k_last.before)
    /\ 30 \notin passthrough_keys

\* C15: the input_fsw callback tests the pulled keyboards in order: every
\* keyboard before the one at hand did not match. The first one that matches
\* is reset and locked (state LOCKED), appended to available_kbds and erased
\* from pulled_kbds; a keyboard that does not match is left alone, and no
\* other step of the callback changes a bucket or a keyboard.
C15_FirstMatchReattached ==
    /\ [](i_pc \in {"wait", "isme", "lock_avail", "push", "erase"} =>
            /\ i_it \in 1..Len(pulled_kbds)
            /\ \A j \in 1..(i_it - 1) : pulled_kbds[j] \notin i_ev.matches)
    /\ [][ in_vars' # in_vars =>
             /\ (i_pc = "isme" /\ pulled_kbds[i_it] \in i_ev.matches) =>
                  /\ i_pc' = "lock_avail"
                  /\ kbd_state' = [kbd_state EXCEPT ![pulled_kbds[i_it]] = "LOCKED"]
                  /\ UNCHANGED <<available_kbds, pulled_kbds>>
             /\ (i_pc = "isme" /\ pulled_kbds[i_it] \notin i_ev.matches) =>
                  /\ i_pc' = "loop"
                  /\ i_it' = i_it + 1
                  /\ UNCHANGED <<kbd_state, available_kbds, pulled_kbds>>
             /\ i_pc = "push" =>
                  /\ available_kbds' = Append(available_kbds, pulled_kbds[i_it])
                  /\ UNCHANGED <<kbd_state, pulled_kbds>>
             /\ i_pc = "erase" =>
                  /\ i_pc' = "idle"
                  /\ Len(pulled_kbds') = Len(pulled_kbds) - 1
                  /\ \A j \in 1..Len(pulled_kbds') :
                         pulled_kbds'[j] = pulled_kbds[IF j < i_it THEN j ELSE j + 1]
                  /\ UNCHANGED <<kbd_state, available_kbds>>
             /\ i_pc \notin {"isme", "push", "erase"} =>
                  UNCHANGED <<kbd_state, available_kbds, pulled_kbds>>
         ]_vars

\* k1 and k2 are pulled, the event is k2's device node: k1 was tested and
\* left alone, k2 was reset, locked and appended to available_kbds, and is
\* about to be erased from pulled_kbds
C15_Witness ==
    /\ i_pc = "erase"
    /\ pulled_kbds = <<"k1", "k2">>
    /\ i_ev.matches = {"k2"}
    /\ i_it = 2
    /\ kbd_state["k1"] = "DISABLED"
    /\ kbd_state["k2"] = "LOCKED"
    /\ available_kbds = <<"k2">>

\* C16 (as claimed): when the device node of a keyboard whose read has failed
\* appears and the input_fsw callback is entered with its event, the keyboard
\* is eventually in available_kbds in state LOCKED, however the callback is
\* interleaved with the runloop's removal of the keyboard.
C16_HotplugEventNotLost ==
    \A k \in {"k1"} :
        (i_pc = "loop" /\ i_it = 1 /\ k \in i_ev.matches)
            ~> (InAvailable(k) /\ kbd_state[k] = "LOCKED")

\* C17 (as claimed): the keys_fsw callback unloads the path of an event whose
\* mask holds IN_DELETE_SELF; otherwise it starts the permission-checked load
\* of the path when the mask holds IN_CREATE or IN_MODIFY or when the event's
\* added flag is set; any other event changes nothing.
C17_DispatchByMaskOrAdded ==
    [][ k_pc = "dispatch" =>
          IF HasBit(k_ev.mask, IN_DELETE_SELF)
          THEN /\ k_last'.kind = "unload"
               /\ k_ev.path \notin DOMAIN key_sources'
          ELSE IF HasBit(k_ev.mask, IN_CREATE) \/ HasBit(k_ev.mask, IN_MODIFY) \/ k_ev.added
          THEN IF PermOK(k_ev)
               THEN k_pc' = "parse" \/ k_last'.kind = "nopath"
               ELSE k_last'.kind = "rejected" /\ UNCHANGED <<key_sources, passthrough_keys>>
          ELSE k_last'.kind = "ignored" /\ UNCHANGED <<key_sources, passthrough_keys>>
      ]_vars

\* C18 (as claimed): while stat() succeeds and the device node's group is not
\* input, or the group lacks read or write permission, the wait loop is not
\* left towards isMe: with device nodes that never become ready the callback
\* never gets past the wait loop.
C18_WaitsForGroupAndPermissions ==
    i_pc \notin {"isme", "lock_avail", "push", "erase"}

\* C19: the wait loop terminates: wait_time is a multiple of 100 that never
\* exceeds 5,000,000, every round that stays in the loop adds to it, and the
\* round that would take it past 5,000,000 makes the callback return without
\* calling isMe, reset or lock and without changing a bucket.
C19_WaitLoopCapped ==
    /\ [](/\ wait_time \in 0..FSW_MAX_WAIT_PERMISSIONS_US
          /\ wait_time % WAIT_INC_US = 0)
    /\ [][ (i_pc = "wait" /\ in_vars' # in_vars) =>
             /\ i_pc' = "wait" =>
                  /\ wait_time' > wait_time
                  /\ UNCHANGED <<i_ev, i_it>>
             /\ wait_time = FSW_MAX_WAIT_PERMISSIONS_US =>
                  /\ i_pc' = "idle"
                  /\ mtx'["pulled"] = "free"
             /\ UNCHANGED <<kbd_state, available_kbds, pulled_kbds>>
         ]_vars

\* the loop has waited 5,000,000 us for the node of a pulled keyboard that
\* matches the event: the next round gives up
C19_Witness ==
    /\ i_pc = "wait"
    /\ wait_time = FSW_MAX_WAIT_PERMISSIONS_US
    /\ pulled_kbds[i_it] \in i_ev.matches
    /\ kbd_state[pulled_kbds[i_it]] = "DISABLED"

\* C20 (as claimed): no registry mutex is held during I/O: the runloop holds
\* neither mutex while it polls, reads or talks to MACROD, and the input_fsw
\* callback holds neither while it waits for the permissions or calls isMe,
\* reset and lock, so that the runloop never stands before
\* pulled_kbds.push_back while the callback is waiting.
C20_NoRegistryLockDuringIO ==
    /\ pc \in {"poll", "lookup", "send", "recv", "sockerr", "emit"} =>
          \A m \in {"avail", "pulled"} : mtx[m] # "run"
    /\ i_pc \in {"wait", "isme"} =>
          \A m \in {"avail", "pulled"} : mtx[m] # "in"
    /\ ~(pc = "pull" /\ i_pc \in {"wait", "isme"} /\ mtx["pulled"] = "in")

\* C21 (as claimed): after the load of a file whose key_code column was read,
\* the file is recorded in key_sources with the codes of all its cells that
\* parse as a non-negative integer, those before and those after a cell that
\* does not parse, and all of these codes are in passthrough_keys.
C21_UnparsableCellSkipped ==
    k_last.kind \in {"loaded", "stoierror"} =>
        /\ k_last.path \in DOMAIN key_sources
        /\ key_sources[k_last.path] = CellsToInts(k_last.cells)
        /\ Range(CellsToInts(k_last.cells)) \subseteq passthrough_keys

\* C22: errors changes only in an iteration that has called MACROD: by +1 in
\* the catch block of a SocketError and to 0 when a round trip is finished.
\* An iteration that ends with a poll timeout, a discarded key, a read error
\* or a key that is not a passthrough key has made no socket call and leaves
\* errors as it was.
C22_CounterChangesOnlyInRoundTrip ==
    /\ []((pc = "top" /\ outcome \in {"timeout", "discarded", "readerr", "verbatim"})
            => iter_sock = 0)
    /\ [][ /\ errors' # errors =>
                /\ iter_sock > 0
                /\ is_passthrough
                /\ \/ pc = "sockerr" /\ errors' = errors + 1
                   \/ pc = "recv" /\ pc' = "top" /\ outcome' = "ok" /\ errors' = 0
           /\ (pc = "sockerr" /\ pc' # "sockerr") => errors' = errors + 1
           /\ iter_sock = 0 /\ iter_sock' = 0 => errors' = errors
         ]_vars

\* two socket errors were counted, and the iteration that just ended emitted
\* a key that is not a passthrough key: the count is still 2
C22_Witness ==
    /\ pc = "top"
    /\ outcome = "verbatim"
    /\ iter_sock = 0
    /\ orig_ev.code \notin passthrough_keys
    /\ errors = 2

\* C23: the runloop and the input_fsw callback cannot deadlock on the two
\* registry mutexes: the callback holds pulled_kbds_mtx whenever it takes or
\* holds available_kbds_mtx, the runloop does not hold available_kbds_mtx
\* when it stands before pulled_kbds_mtx, and so it never happens that each
\* waits for the mutex the other holds.
C23_NoLockOrderDeadlock ==
    /\ i_pc \in {"lock_avail", "push"} => mtx["pulled"] = "in"
    /\ mtx["avail"] = "in" => mtx["pulled"] = "in"
    /\ pc = "pull" => mtx["avail"] # "run"
    /\ ~( /\ pc = "pull" /\ mtx["pulled"] = "in"
          /\ i_pc = "lock_avail" /\ mtx["avail"] = "run" )

\* the runloop has erased k2 and waits for pulled_kbds_mtx, which the callback
\* holds while it is about to take available_kbds_mtx for k1: the callback
\* can go on, the mutex it needs is free
C23_Witness ==
    /\ pc = "pull"
    /\ kbd = "k2"
    /\ mtx["pulled"] = "in"
    /\ i_pc = "lock_avail"
    /\ pulled_kbds[i_it] = "k1"
    /\ mtx["avail"] = "free"

\* C24: when the runloop is at the top of its loop, nothing emitted on udev
\* waits for a flush: an iteration that emitted anything, also responses
\* received before a SocketError, ended with a flush.
C24_NothingUnflushedAtTop ==
    pc = "top" =>
        /\ udev_queue = <<>>
        /\ iter_log # <<>> => iter_log[Len(iter_log)] = FlushOp

\* a response was received and emitted, then the socket failed: the iteration
\* ended with the fallback emit and its flush
C24_Witness ==
    /\ pc = "top"
    /\ outcome = "fallback"
    /\ iter_resp # <<>>
    /\ Len(iter_log) = Len(iter_resp) + 2
    /\ udev_queue = <<>>

====
